---- MODULE Spec2Model ----
(***************************************************************************)
(* Model of app0905.py: the portfolio performance analysis                 *)
(* (display_portfolio_performance), the Monte Carlo projection             *)
(* (run_monte_carlo_simulation) and the two paths of page_main that reach  *)
(* them (a fresh AI recommendation, the replay of a stored one).           *)
(*                                                                         *)
(* Numbers.  A float is modelled by an exact rational <<n, d>> in lowest   *)
(* terms with d > 0.  <<0, 0>> is NaN and <<1, 0>>, <<-1, 0>> are the      *)
(* infinities a division by zero produces.  A square root is rounded down  *)
(* to a multiple of 1/SqrtScale.                                           *)
(***************************************************************************)
EXTENDS Integers, Sequences, FiniteSets, TLC

----------------------------------------------------------------------------
(* Float arithmetic *)

Abs(i) == IF i < 0 THEN -i ELSE i

Sign(i) == IF i < 0 THEN -1 ELSE IF i > 0 THEN 1 ELSE 0

RECURSIVE GCD(_, _)
GCD(a, b) == IF b = 0 THEN a ELSE GCD(b, a % b)

\* the float n/d; x/0 is an infinity and 0/0 is NaN
Q(n, d) ==
    IF d = 0 THEN <<Sign(n), 0>>
    ELSE LET g == GCD(Abs(n), Abs(d))
         IN  <<Sign(d) * (n \div g), Abs(d) \div g>>

NaN == <<0, 0>>
Zero == <<0, 1>>
One == <<1, 1>>

IsNaN(x) == x = NaN

IsFinite(x) == x[2] > 0

\* an operation on a NaN or an infinity is modelled as NaN
Add(x, y) ==
    IF ~IsFinite(x) \/ ~IsFinite(y) THEN NaN
    ELSE LET g == GCD(x[2], y[2])
         IN  Q(x[1] * (y[2] \div g) + y[1] * (x[2] \div g), (x[2] \div g) * y[2])

Neg(x) == <<-x[1], x[2]>>

Sub(x, y) == Add(x, Neg(y))

Mul(x, y) ==
    IF ~IsFinite(x) \/ ~IsFinite(y) THEN NaN
    ELSE LET g1 == GCD(Abs(x[1]), y[2])
             g2 == GCD(Abs(y[1]), x[2])
         IN  Q((x[1] \div g1) * (y[1] \div g2), (x[2] \div g2) * (y[2] \div g1))

Div(x, y) ==
    IF ~IsFinite(x) \/ ~IsFinite(y) THEN NaN
    ELSE IF y[1] = 0 THEN Q(x[1], 0)
    ELSE Mul(x, Q(y[2], y[1]))

\* a comparison with NaN is false
Less(x, y) == IsFinite(x) /\ IsFinite(y) /\ x[1] * y[2] < y[1] * x[2]

Leq(x, y) == IsFinite(x) /\ IsFinite(y) /\ x[1] * y[2] <= y[1] * x[2]

\* x != y of two floats: NaN differs from everything
NotEqual(x, y) == IsNaN(x) \/ IsNaN(y) \/ x # y

SqrtScale == 100

\* the integer part of the square root of n
RECURSIVE ISqrt(_)
ISqrt(n) ==
    IF n < 2 THEN n
    ELSE LET r == 2 * ISqrt(n \div 4)
         IN  IF (r + 1) * (r + 1) > n THEN r ELSE r + 1

\* np.sqrt and x ** 0.5: NaN for a NaN or a negative argument
Sqrt(x) ==
    IF ~IsFinite(x) \/ x[1] < 0 THEN NaN
    ELSE Q(ISqrt((x[1] * SqrtScale * SqrtScale) \div x[2]), SqrtScale)

RECURSIVE SumSeq(_)
SumSeq(s) == IF s = <<>> THEN Zero ELSE Add(SumSeq(SubSeq(s, 1, Len(s) - 1)), s[Len(s)])

----------------------------------------------------------------------------
(* Price tables.  A table has column labels, a date index (the positions   *)
(* of its rows in the data source's answer) and rows of cells; a cell is a *)
(* price or NaN.                                                           *)

EmptyTable == [cols |-> <<>>, index |-> <<>>, rows |-> <<>>]

HasNaN(row) == \E j \in 1..Len(row) : IsNaN(row[j])

\* DataFrame.empty: some axis has length 0
IsEmpty(t) == Len(t.rows) = 0 \/ Len(t.cols) = 0

\* Series.to_frame() without the name: the column keeps the name of the series
ToFrameUnnamed(raw, tickers) ==
    [cols |-> raw.cols, index |-> raw.index, rows |-> raw.rows]

\* Series.to_frame(name=tickers[0])
ToFrame(raw, tickers) ==
    IF raw.shape = "series"
    THEN [cols |-> <<tickers[1]>>, index |-> raw.index,
          rows |-> [i \in 1..Len(raw.rows) |-> <<raw.rows[i][1]>>]]
    ELSE [cols |-> raw.cols, index |-> raw.index, rows |-> raw.rows]

\* DataFrame.ffill(): a missing cell takes the last earlier observation of its column
RECURSIVE FFillRows(_)
FFillRows(rows) ==
    IF Len(rows) <= 1 THEN rows
    ELSE LET prev == FFillRows(SubSeq(rows, 1, Len(rows) - 1))
             last == rows[Len(rows)]
         IN  Append(prev, [j \in 1..Len(last) |->
                              IF IsNaN(last[j]) THEN prev[Len(prev)][j] ELSE last[j]])

\* DataFrame.bfill(): a missing cell takes the first later observation of its column
RECURSIVE BFillRows(_)
BFillRows(rows) ==
    IF Len(rows) <= 1 THEN rows
    ELSE LET rest == BFillRows(Tail(rows))
             first == rows[1]
         IN  <<[j \in 1..Len(first) |->
                   IF IsNaN(first[j]) THEN rest[1][j] ELSE first[j]]>> \o rest

\* the positions of the rows without a missing cell, in order
RECURSIVE KeepIdx(_, _)
KeepIdx(rows, n) ==
    IF n = 0 THEN <<>>
    ELSE IF HasNaN(rows[n]) THEN KeepIdx(rows, n - 1)
    ELSE Append(KeepIdx(rows, n - 1), n)

\* DataFrame.dropna(): rows with any missing cell are dropped
DropNa(t) ==
    LET k == KeepIdx(t.rows, Len(t.rows))
    IN  [cols |-> t.cols,
         index |-> [i \in 1..Len(k) |-> t.index[k[i]]],
         rows |-> [i \in 1..Len(k) |-> t.rows[k[i]]]]

\* the drop before the fills: every row with a missing cell is lost
CleanDropFirst(t) ==
    LET dropped == DropNa(t)
    IN  [table |-> [cols |-> t.cols, index |-> dropped.index,
                    rows |-> BFillRows(FFillRows(dropped.rows))],
         warned |-> \E i \in 1..Len(t.rows) : HasNaN(t.rows[i])]

\* rec_data.ffill().bfill(), then dropna if a missing cell is left
Clean(t) ==
    LET filled == [cols |-> t.cols, index |-> t.index,
                   rows |-> BFillRows(FFillRows(t.rows))]
    IN  IF \E i \in 1..Len(filled.rows) : HasNaN(filled.rows[i])
        THEN [table |-> DropNa(filled), warned |-> TRUE]
        ELSE [table |-> filled, warned |-> FALSE]

\* rec_data / rec_data.iloc[0]
Normalize(t) ==
    [cols |-> t.cols, index |-> t.index,
     rows |-> [i \in 1..Len(t.rows) |->
                  [j \in 1..Len(t.cols) |-> Div(t.rows[i][j], t.rows[1][j])]]]

\* DataFrame.pct_change(): the first row has no earlier row and is NaN
PctChange(t) ==
    [cols |-> t.cols, index |-> t.index,
     rows |-> [i \in 1..Len(t.rows) |->
                  [j \in 1..Len(t.cols) |->
                      IF i = 1 THEN NaN
                      ELSE Sub(Div(t.rows[i][j], t.rows[i - 1][j]), One)]]]

\* (returns * weights).sum(axis=1): weights[j] multiplies the j-th column
WeightedSum(returns, weights) ==
    [i \in 1..Len(returns.rows) |->
        SumSeq([j \in 1..Len(returns.cols) |-> Mul(returns.rows[i][j], weights[j])])]

\* a running product that starts at 1.0 before the first return
RECURSIVE CumProdSeeded(_)
CumProdSeeded(s) ==
    IF s = <<>> THEN <<One>>
    ELSE LET c == CumProdSeeded(SubSeq(s, 1, Len(s) - 1))
         IN  Append(c, Mul(c[Len(c)], Add(One, s[Len(s)])))

\* 1 + series.cumsum(): returns added up instead of compounded
RECURSIVE CumSumPlusOne(_)
CumSumPlusOne(s) ==
    IF s = <<>> THEN <<>>
    ELSE IF Len(s) = 1 THEN <<Add(One, s[1])>>
    ELSE LET c == CumSumPlusOne(SubSeq(s, 1, Len(s) - 1))
         IN  Append(c, Add(c[Len(c)], s[Len(s)]))

\* (1 + series).cumprod()
RECURSIVE CumProd(_)
CumProd(s) ==
    IF s = <<>> THEN <<>>
    ELSE IF Len(s) = 1 THEN <<Add(One, s[1])>>
    ELSE LET c == CumProd(SubSeq(s, 1, Len(s) - 1))
         IN  Append(c, Mul(c[Len(c)], Add(One, s[Len(s)])))

\* Series.mean(): NaN for an empty series
Mean(s) == IF s = <<>> THEN NaN ELSE Div(SumSeq(s), Q(Len(s), 1))

\* the sample variance (ddof = 1): NaN for fewer than two observations
Variance(s) ==
    IF Len(s) < 2 THEN NaN
    ELSE LET m == Mean(s)
         IN  Div(SumSeq([i \in 1..Len(s) |-> Mul(Sub(s[i], m), Sub(s[i], m))]),
                 Q(Len(s) - 1, 1))

\* Series.std()
Std(s) == Sqrt(Variance(s))

----------------------------------------------------------------------------
(* display_portfolio_performance, from the answer of the data source to    *)
(* the call of run_monte_carlo_simulation                                  *)

LookbackDays == 730
DaysPerYear == 365
TradingDays == 252
RiskFreeRate == Q(2, 100)

\* x ** (365.0 / days): days is always 730, the exponent 1/2
Power(x, e) == IF e = Q(1, 2) THEN Sqrt(x) ELSE IF e = One THEN x ELSE NaN

\* ((1 + total_return) ** (365.0 / days)) - 1 if days > 0 else 0
AnnualReturn(total_return) ==
    IF LookbackDays > 0
    THEN Sub(Power(Add(One, total_return), Q(DaysPerYear, LookbackDays)), One)
    ELSE Zero

\* portfolio_returns.std() * np.sqrt(252)
AnnualVolatility(portfolio_returns) ==
    Mul(Std(portfolio_returns), Sqrt(Q(TradingDays, 1)))

\* (annual_return - 0.02) / annual_volatility if annual_volatility != 0 else 0
SharpeRatio(annual_return, annual_volatility) ==
    IF NotEqual(annual_volatility, Zero)
    THEN Div(Sub(annual_return, RiskFreeRate), annual_volatility)
    ELSE Zero

\* what the function has computed and rendered when it stops short
Partial(outcome, warned, rec, norm, rets, prets, cum, shown) ==
    [outcome |-> outcome, warned |-> warned, rec_data |-> rec,
     normalized_data |-> norm, returns |-> rets, portfolio_returns |-> prets,
     cumulative_returns |-> cum, summary |-> <<>>, shown |-> shown]

\* outcome "nodata": the warning of line 515 and return; "error": an exception
\* reached the handler of line 562; "ok": the summary is shown and the
\* projector is called next
Analyze(raw, tickers, weights) ==
    LET frame == ToFrame(raw, tickers)
    IN  IF IsEmpty(frame)
        THEN Partial("nodata", FALSE, frame, EmptyTable, EmptyTable, <<>>, <<>>, {})
        ELSE
        LET cl == Clean(frame)
            rec == cl.table
        IN  IF Len(rec.rows) = 0    \* rec_data.iloc[0]: IndexError
            THEN Partial("error", cl.warned, rec, EmptyTable, EmptyTable, <<>>, <<>>, {})
            ELSE
            LET norm == Normalize(rec)
                rets == DropNa(PctChange(rec))
            IN  IF Len(weights) # Len(rets.cols)    \* returns * weights: ValueError
                THEN Partial("error", cl.warned, rec, norm, rets, <<>>, <<>>,
                             {"price_chart"})
                ELSE
                LET prets == WeightedSum(rets, weights)
                    cum == CumProd(prets)
                IN  IF cum = <<>>    \* cumulative_returns.iloc[-1]: IndexError
                    THEN Partial("error", cl.warned, rec, norm, rets, prets, cum,
                                 {"price_chart", "cumulative_chart"})
                    ELSE
                    LET total_return == Sub(cum[Len(cum)], One)
                        annual_return == AnnualReturn(total_return)
                        annual_volatility == AnnualVolatility(prets)
                        sharpe_ratio == SharpeRatio(annual_return, annual_volatility)
                    IN  [outcome |-> "ok", warned |-> cl.warned, rec_data |-> rec,
                         normalized_data |-> norm, returns |-> rets,
                         portfolio_returns |-> prets, cumulative_returns |-> cum,
                         summary |-> <<total_return, annual_return,
                                       annual_volatility, sharpe_ratio>>,
                         shown |-> {"price_chart", "cumulative_chart", "summary"}]

----------------------------------------------------------------------------
(* run_monte_carlo_simulation.  The code simulates 252 * 10 days on 1000   *)
(* paths; the model simulates SimDays days on NSims paths.                 *)

SimDays == 2
NSims == 2
InitialInvestment == 10000

\* the values a draw takes when the standard deviation is positive: a normal
\* variable can take any value, and one of the two is below -1
DrawChoices == {Q(-3, 2), Q(1, 2)}

\* np.random.normal(mean_return, std_dev, (days, paths)): the matrices it can
\* return.  A NaN parameter gives NaN draws, a zero deviation gives the mean.
NormalDraws(mean_return, std_dev) ==
    LET values == IF IsNaN(mean_return) \/ IsNaN(std_dev) THEN {NaN}
                  ELSE IF std_dev = Zero THEN {mean_return}
                  ELSE DrawChoices
    IN  [1..SimDays -> [1..NSims -> values]]

\* the gain instead of the value: initial_investment * (cumulative - 1)
FinalGains(simulated_returns) ==
    [p \in 1..NSims |->
        LET path == [d \in 1..SimDays |-> simulated_returns[d][p]]
            cumulative == CumProd(path)
        IN  Mul(Q(InitialInvestment, 1), Sub(cumulative[Len(cumulative)], One))]

\* initial_investment * (1 + simulated_returns).cumprod().iloc[-1]
FinalValues(simulated_returns) ==
    [p \in 1..NSims |->
        LET path == [d \in 1..SimDays |-> simulated_returns[d][p]]
            cumulative == CumProd(path)
        IN  Mul(Q(InitialInvestment, 1), cumulative[Len(cumulative)])]

\* insertion of x into an ascending sequence
RECURSIVE Insert(_, _)
Insert(x, s) ==
    IF s = <<>> THEN <<x>>
    ELSE IF Leq(x, s[1]) THEN <<x>> \o s
    ELSE <<s[1]>> \o Insert(x, Tail(s))

RECURSIVE Sorted(_)
Sorted(s) == IF s = <<>> THEN <<>> ELSE Insert(s[1], Sorted(Tail(s)))

\* np.percentile(values, q), linear interpolation; NaN when a value is NaN
Percentile(values, q) ==
    IF \E i \in 1..Len(values) : ~IsFinite(values[i]) THEN NaN
    ELSE LET sorted == Sorted(values)
             n == Len(values)
             lo == (q * (n - 1)) \div 100
             hi == IF lo + 1 < n THEN lo + 1 ELSE lo
             frac == Q(q * (n - 1) - 100 * lo, 100)
         IN  Add(sorted[lo + 1], Mul(Sub(sorted[hi + 1], sorted[lo + 1]), frac))

\* np.percentile(final_portfolio_values, [5, 50, 95])
Percentiles(values) ==
    <<Percentile(values, 5), Percentile(values, 50), Percentile(values, 95)>>

----------------------------------------------------------------------------
(* page_main: the check of an AI recommendation *)

\* np.isclose(a, b): |a - b| <= atol + rtol * |b|, rtol = 1e-5, atol = 1e-8
IsClose(a, b) ==
    LET diff == Sub(a, b)
        absdiff == IF diff[1] < 0 THEN Neg(diff) ELSE diff
        absb == IF b[1] < 0 THEN Neg(b) ELSE b
    IN  Leq(absdiff, Add(Q(1, 100000000), Mul(Q(1, 100000), absb)))

\* not (len(tickers) != len(weights) or not np.isclose(sum(weights), 1.0))
ValidPortfolio(tks, wts) == Len(tks) = Len(wts) /\ IsClose(SumSeq(wts), One)

----------------------------------------------------------------------------
(* Inputs *)

MaxRows == 3
MaxRecs == 1

\* the ticker symbols, in the order of their symbols
TickerOrder == <<"A", "B">>

TickerLists == {<<"A">>, <<"A", "B">>, <<"B", "A">>}

WeightChoices == {Q(1, 4), Q(3, 4), One}

WeightLists == UNION {[1..n -> WeightChoices] : n \in 1..2}

\* what a recommendation holds once parsed (lines 258-259, 307-308)
Portfolios == {[tickers |-> t, weights |-> w] : t \in TickerLists, w \in WeightLists}

PriceChoices == {1, 2}

Cells == {NaN} \cup {Q(p, 1) : p \in PriceChoices}

InList(t, tks) == \E i \in 1..Len(tks) : tks[i] = t

\* yf.download(tickers, ...)["Close"] labels its columns by ticker, in the
\* order of the symbols, whatever the order of the request
SourceColumns(tks) == SelectSeq(TickerOrder, LAMBDA t : InList(t, tks))

\* every table of up to MaxRows rows over cols
Tables(cols) ==
    UNION {{[shape |-> "frame", cols |-> cols, index |-> [i \in 1..r |-> i], rows |-> m] :
               m \in [1..r -> [1..Len(cols) -> Cells]]} : r \in 0..MaxRows}

\* the tables whose columns are sample histories of one length
SampleHistories ==
    {<<>>, <<NaN, NaN>>, <<One, Q(2, 1)>>, <<One, One, One>>, <<One, NaN, Q(2, 1)>>}

SampleTables(cols) ==
    UNION {{[shape |-> "frame", cols |-> cols, index |-> [i \in 1..r |-> i],
             rows |-> [i \in 1..r |-> [j \in 1..Len(cols) |-> h[j][i]]]] :
               h \in [1..Len(cols) -> {x \in SampleHistories : Len(x) = r}]} : r \in 0..MaxRows}

\* a request for one ticker may be answered by a series instead of a table
AsSeries(t) == [shape |-> "series", cols |-> <<"Close">>, index |-> t.index, rows |-> t.rows]

SourceAnswers(tks, tables) ==
    tables \cup (IF Len(tks) = 1 THEN {AsSeries(t) : t \in tables} ELSE {})

----------------------------------------------------------------------------
(* get_gemini_recommendation.  A reply of the service is described by what *)
(* each step of the function finds in it.                                  *)

\* a reply that carries a text
GoodResponse ==
    [transport |-> "ok", body |-> "object", candidates |-> "list",
     candidate |-> "object", content |-> "object", parts |-> "list", part |-> "text"]

\* the replies: the good one, and the good one with one thing wrong
Responses ==
    {GoodResponse,
     [GoodResponse EXCEPT !.transport = "failed"],    \* no connection, or an HTTP error status
     [GoodResponse EXCEPT !.body = "not_json"],
     [GoodResponse EXCEPT !.body = "array"],
     [GoodResponse EXCEPT !.candidates = "absent"],
     [GoodResponse EXCEPT !.candidates = "empty"],
     [GoodResponse EXCEPT !.candidate = "string"],
     [GoodResponse EXCEPT !.content = "absent"],
     [GoodResponse EXCEPT !.content = "string"],
     [GoodResponse EXCEPT !.parts = "absent"],
     [GoodResponse EXCEPT !.parts = "empty"],
     [GoodResponse EXCEPT !.part = "no_text"],
     [GoodResponse EXCEPT !.part = "string"],
     [GoodResponse EXCEPT !.part = "empty_text"]}

\* what a call gives: a text (maybe the empty one), None, or an exception
\* that none of its handlers catches
NoneResult == [kind |-> "none", text |-> ""]
Raised == [kind |-> "raised", text |-> ""]
Text(t) == [kind |-> "text", text |-> t]

\* lines 48-82, in the order of the code
get_gemini_recommendation(response) ==
    IF response.transport # "ok" THEN NoneResult            \* RequestException, line 75
    ELSE IF response.body = "not_json" THEN NoneResult      \* JSONDecodeError, lines 75-82
    ELSE IF response.body # "object" THEN Raised            \* result.get: AttributeError
    ELSE IF response.candidates # "list" THEN NoneResult    \* not candidates, line 55
    ELSE IF response.candidate # "object" THEN Raised       \* candidates[0].get: AttributeError
    ELSE IF response.content = "absent" THEN NoneResult     \* not content, line 61
    ELSE IF response.content # "object" THEN Raised         \* content.get: AttributeError
    ELSE IF response.parts # "list" THEN NoneResult         \* not parts, line 68
    ELSE IF response.part = "no_text" THEN NoneResult       \* KeyError, line 78
    ELSE IF response.part = "string" THEN Raised            \* parts[0]['text']: TypeError
    ELSE IF response.part = "empty_text" THEN Text("")
    ELSE Text("text")

\* if sim_explanation: a text that is not empty
Truthy(result) == result.kind = "text" /\ result.text # ""

----------------------------------------------------------------------------
(* State *)

VARIABLES
    pc,                     \* "idle", or the call the analysis is waiting for
    is_historical,          \* the replay of a stored recommendation
    tickers, weights,       \* the portfolio under analysis
    outcome,                \* how the last analysis ended
    raw_data,               \* the answer of the data source, as it came
    warned,                 \* the warning of line 520 was shown
    rec_data, normalized_data, returns,
    portfolio_returns, cumulative_returns,
    summary,                \* <<total, annual return, volatility, Sharpe>> or <<>>
    simulated_returns,      \* the draws, a days x paths matrix, or <<>>
    final_portfolio_values, percentiles,
    narrative,              \* "", "explanation" or "placeholder"
    shown,                  \* what has been rendered
    recs,                   \* the rows of the worksheet "recommendations"
    user,                   \* st.session_state['user']
    page,                   \* st.session_state['page']: "login" or "main"
    users                   \* the worksheet "users"

request == <<is_historical, tickers, weights>>

analysis == <<outcome, raw_data, warned, rec_data, normalized_data, returns,
              portfolio_returns, cumulative_returns, summary, shown>>

projection == <<simulated_returns, final_portfolio_values, percentiles, narrative>>

session == <<user, page, users>>

vars == <<pc, request, analysis, projection, recs, session>>

\* no answer of the data source yet
NoAnswer == [shape |-> "none", cols |-> <<>>, index |-> <<>>, rows |-> <<>>]

NoAnalysis ==
    /\ raw_data = NoAnswer
    /\ warned = FALSE
    /\ rec_data = EmptyTable
    /\ normalized_data = EmptyTable
    /\ returns = EmptyTable
    /\ portfolio_returns = <<>>
    /\ cumulative_returns = <<>>
    /\ summary = <<>>
    /\ shown = {}

NoProjection ==
    /\ simulated_returns = <<>>
    /\ final_portfolio_values = <<>>
    /\ percentiles = <<>>
    /\ narrative = ""

\* a new analysis starts from a blank page
Blank ==
    /\ raw_data' = NoAnswer
    /\ simulated_returns' = <<>>
    /\ warned' = FALSE
    /\ rec_data' = EmptyTable
    /\ normalized_data' = EmptyTable
    /\ returns' = EmptyTable
    /\ portfolio_returns' = <<>>
    /\ cumulative_returns' = <<>>
    /\ summary' = <<>>
    /\ shown' = {}
    /\ final_portfolio_values' = <<>>
    /\ percentiles' = <<>>
    /\ narrative' = ""

\* lines 567-570: the page the script renders
Route == IF page = "login" THEN "page_login" ELSE "page_main"

\* st.session_state['user']: None, or the record of the user who logged in
None == [logged_in |-> FALSE, email |-> "", display_name |-> ""]
User(email, display_name) ==
    [logged_in |-> TRUE, email |-> email, display_name |-> display_name]

\* hashlib.sha256(password.encode()).hexdigest(): the digest of a password,
\* different for different passwords
hash_password(password) == <<"sha256", password>>

\* the worksheet "users" as a table: with or without its header, and its rows
EmptySheet == [columns |-> FALSE, rows |-> <<>>]
HeaderOnly == [columns |-> TRUE, rows |-> <<>>]

\* get_users_df(): the worksheet, or an empty table when it cannot be read
get_users_df(read_ok) == IF read_ok THEN users ELSE EmptySheet

\* users_df[users_df['email'] == email]
UserRecord(users_df, email) == SelectSeq(users_df.rows, LAMBDA row : row.email = email)

\* what is typed into the forms
LoginEmails == {"", "a", "b"}
LoginPasswords == {"", "p", "q"}
SignupEmails == {"", "a"}
SignupPasswords == {"p"}
SignupNames == {"", "n"}

\* the worksheet is outside the program: it may already hold a row, and
\* nothing makes that row a portfolio the check of line 263 would pass
StoredRows ==
    {<<>>,
     <<[tickers |-> <<"A", "B">>, weights |-> <<One>>]>>,
     <<[tickers |-> <<"A", "B">>, weights |-> <<Q(3, 4), Q(3, 4)>>]>>}

Init ==
    /\ pc = "idle"
    /\ is_historical = FALSE
    /\ tickers = <<>>
    /\ weights = <<>>
    /\ outcome = "none"
    /\ NoAnalysis
    /\ NoProjection
    /\ recs \in StoredRows
    /\ user = None
    /\ page = "login"
    /\ users \in {EmptySheet, HeaderOnly}

\* lines 268-281: after display_portfolio_performance returns, a fresh
\* recommendation is appended to the worksheet
Saved == IF is_historical THEN recs ELSE Append(recs, [tickers |-> tickers, weights |-> weights])

\* tab1, lines 224-266: the AI answers and its answer is parsed and checked
StartAnalysis(p) ==
    /\ pc = "idle"
    /\ Route = "page_main"
    /\ Len(recs) < MaxRecs
    /\ is_historical' = FALSE
    /\ tickers' = p.tickers
    /\ weights' = p.weights
    /\ Blank
    /\ IF ValidPortfolio(p.tickers, p.weights)
       THEN pc' = "fetch" /\ outcome' = "none"
       ELSE pc' = "idle" /\ outcome' = "invalid"
    /\ UNCHANGED recs
    /\ UNCHANGED session

\* tab1: no answer (line 248), or an answer that cannot be parsed (line 283)
NoRecommendation(kind) ==
    /\ pc = "idle"
    /\ Route = "page_main"
    /\ is_historical' = FALSE
    /\ tickers' = <<>>
    /\ weights' = <<>>
    /\ Blank
    /\ outcome' = kind
    /\ UNCHANGED <<pc, recs>>
    /\ UNCHANGED session

\* tab2, lines 305-313: a stored recommendation is parsed and analysed
ReplayStored(i) ==
    /\ pc = "idle"
    /\ Route = "page_main"
    /\ i \in 1..Len(recs)
    /\ is_historical' = TRUE
    /\ tickers' = recs[i].tickers
    /\ weights' = recs[i].weights
    /\ Blank
    /\ pc' = "fetch"
    /\ outcome' = "none"
    /\ UNCHANGED recs
    /\ UNCHANGED session

\* an analysis that calls the projector however it ended
FetchThenProject(raw) ==
    /\ pc = "fetch"
    /\ \E r \in {Analyze(raw, tickers, weights)} :
           /\ outcome' = r.outcome
           /\ raw_data' = raw
           /\ warned' = r.warned
           /\ rec_data' = r.rec_data
           /\ normalized_data' = r.normalized_data
           /\ returns' = r.returns
           /\ portfolio_returns' = r.portfolio_returns
           /\ cumulative_returns' = r.cumulative_returns
           /\ summary' = r.summary
           /\ shown' = r.shown
    /\ pc' = "simulate"
    /\ UNCHANGED <<request, projection, recs>>
    /\ UNCHANGED session

\* lines 510-560: the data source answers and the analysis runs up to the
\* call of the projector, or stops
Fetch(raw) ==
    /\ pc = "fetch"
    /\ \E r \in {Analyze(raw, tickers, weights)} :
           /\ outcome' = r.outcome
           /\ raw_data' = raw
           /\ warned' = r.warned
           /\ rec_data' = r.rec_data
           /\ normalized_data' = r.normalized_data
           /\ returns' = r.returns
           /\ portfolio_returns' = r.portfolio_returns
           /\ cumulative_returns' = r.cumulative_returns
           /\ summary' = r.summary
           /\ shown' = r.shown
           /\ IF r.outcome = "ok"
              THEN pc' = "simulate" /\ UNCHANGED recs
              ELSE pc' = "idle" /\ recs' = Saved
    /\ UNCHANGED <<request, projection>>
    /\ UNCHANGED session

\* the data source answers with one of the sample tables
FetchSample ==
    /\ pc = "fetch"
    /\ \E raw \in SourceAnswers(tickers, SampleTables(SourceColumns(tickers))) : Fetch(raw)

\* the data source answers with any table
FetchAny ==
    /\ pc = "fetch"
    /\ \E raw \in SourceAnswers(tickers, Tables(SourceColumns(tickers))) : Fetch(raw)

\* lines 454-474: the draws, the terminal values and their percentiles
Simulate ==
    /\ pc = "simulate"
    /\ \E draws \in NormalDraws(Mean(portfolio_returns), Std(portfolio_returns)) :
       \E finals \in {FinalValues(draws)} :
          /\ simulated_returns' = draws
          /\ final_portfolio_values' = finals
          /\ percentiles' = Percentiles(finals)
    /\ shown' = shown \cup {"box_plot", "percentiles"}
    /\ pc' = "explain"
    /\ UNCHANGED <<request, outcome, raw_data, warned, rec_data, normalized_data,
                   returns, portfolio_returns, cumulative_returns, summary,
                   narrative, recs>>
    /\ UNCHANGED session

\* lines 492-496: the explanation service replies; an exception that leaves
\* get_gemini_recommendation leaves run_monte_carlo_simulation as well and is
\* caught at line 562
Explain(response) ==
    /\ pc = "explain"
    /\ \E sim_explanation \in {get_gemini_recommendation(response)} :
          IF sim_explanation = Raised
          THEN /\ narrative' = ""
               /\ shown' = shown \cup {"processing_error"}
          ELSE IF Truthy(sim_explanation)
          THEN /\ narrative' = "explanation"
               /\ shown' = shown \cup {"explanation"}
          ELSE /\ narrative' = "placeholder"
               /\ shown' = shown \cup {"placeholder"}
    /\ pc' = "idle"
    /\ recs' = Saved
    /\ UNCHANGED <<request, outcome, raw_data, warned, rec_data, normalized_data,
                   returns, portfolio_returns, cumulative_returns, summary,
                   simulated_returns, final_portfolio_values, percentiles>>
    /\ UNCHANGED session

\* a run of the script that starts from a blank page and analyses nothing
Fresh ==
    /\ pc' = "idle"
    /\ is_historical' = FALSE
    /\ tickers' = <<>>
    /\ weights' = <<>>
    /\ outcome' = "none"
    /\ Blank

\* a run of page_login that ends with one message and changes nothing else
Message(msg) ==
    /\ shown' = {msg}
    /\ UNCHANGED <<pc, request, outcome, raw_data, warned, rec_data, normalized_data,
                   returns, portfolio_returns, cumulative_returns, summary,
                   projection, recs>>

\* a rerun of the script with no button pressed
Rerun ==
    /\ pc = "idle"
    /\ Fresh
    /\ UNCHANGED <<recs, session>>

\* lines 118-120: the spreadsheet is not connected
NoDatabase ==
    /\ pc = "idle"
    /\ Route = "page_login"
    /\ Message("no_database")
    /\ UNCHANGED session

\* lines 122-152: the login form is submitted
Login(email, password, read_ok) ==
    /\ pc = "idle"
    /\ Route = "page_login"
    /\ IF email = "" \/ password = ""
       THEN Message("enter_email_and_password") /\ UNCHANGED session
       ELSE
       LET users_df == get_users_df(read_ok)
           user_record == UserRecord(users_df, email)
       IN  IF users_df.rows = <<>> /\ ~users_df.columns
           THEN Message("bad_user_sheet") /\ UNCHANGED session
           ELSE IF user_record = <<>>
           THEN Message("no_such_user") /\ UNCHANGED session
           ELSE IF hash_password(password) # user_record[1].hashed_password
           THEN Message("wrong_password") /\ UNCHANGED session
           ELSE /\ user' = User(user_record[1].email, user_record[1].display_name)
                /\ page' = "main"
                /\ Fresh                \* st.rerun(): page_main is rendered
                /\ UNCHANGED <<recs, users>>

\* lines 154-179: the registration form is submitted
Signup(email, password, display_name, read_ok, write_ok) ==
    /\ pc = "idle"
    /\ Route = "page_login"
    /\ IF email = "" \/ password = "" \/ display_name = ""
       THEN Message("fill_all_fields") /\ UNCHANGED session
       ELSE
       LET users_df == get_users_df(read_ok)
           new_user_data == [email |-> email,
                             hashed_password |-> hash_password(password),
                             display_name |-> display_name]
       IN  IF users_df.columns /\ UserRecord(users_df, email) # <<>>
           THEN Message("already_registered") /\ UNCHANGED session
           ELSE IF write_ok
           THEN /\ users' = [columns |-> TRUE, rows |-> Append(users_df.rows, new_user_data)]
                /\ Message("registered")
                /\ UNCHANGED <<user, page>>
           ELSE Message("write_failed") /\ UNCHANGED session

\* a logout that forgets the user and stays on the main page
LogoutKeepsPage ==
    /\ pc = "idle"
    /\ Route = "page_main"
    /\ user' = None
    /\ Fresh
    /\ UNCHANGED <<page, recs, users>>

\* lines 186-189: the logout button
Logout ==
    /\ pc = "idle"
    /\ Route = "page_main"
    /\ user' = None
    /\ page' = "login"
    /\ Fresh                            \* st.rerun(): page_login is rendered
    /\ UNCHANGED <<recs, users>>

Next ==
    \/ \E p \in Portfolios : StartAnalysis(p)
    \/ \E kind \in {"no_answer", "unparsed"} : NoRecommendation(kind)
    \/ \E i \in 1..MaxRecs : ReplayStored(i)
    \/ FetchSample
    \/ Simulate
    \/ \E response \in Responses : Explain(response)
    \/ Rerun
    \/ NoDatabase
    \/ \E email \in LoginEmails, password \in LoginPasswords, read_ok \in BOOLEAN :
          Login(email, password, read_ok)
    \/ \E email \in SignupEmails, password \in SignupPasswords,
          display_name \in SignupNames, read_ok \in BOOLEAN, write_ok \in BOOLEAN :
          Signup(email, password, display_name, read_ok, write_ok)
    \/ Logout

Spec == Init /\ [][Next]_vars

----------------------------------------------------------------------------
(* The analysis alone: display_portfolio_performance is entered with a     *)
(* portfolio that passed the check of line 263, or with any stored one,    *)
(* and the data source answers with any table of up to MaxRows rows.       *)

\* a session in which the registered user has logged in
LoggedIn ==
    /\ user = User("a", "n")
    /\ page = "main"
    /\ users = [columns |-> TRUE,
                rows |-> <<[email |-> "a", hashed_password |-> hash_password("p"),
                            display_name |-> "n"]>>]

InitAnalyzer ==
    /\ pc = "fetch"
    /\ outcome = "none"
    /\ NoAnalysis
    /\ NoProjection
    /\ \E p \in Portfolios :
          /\ tickers = p.tickers
          /\ weights = p.weights
          /\ \/ is_historical = FALSE /\ ValidPortfolio(p.tickers, p.weights) /\ recs = <<>>
             \/ is_historical = TRUE /\ recs = <<p>>
    /\ LoggedIn

NextAnalyzer == FetchAny

SpecAnalyzer == InitAnalyzer /\ [][NextAnalyzer]_vars

----------------------------------------------------------------------------
(* The projection alone: run_monte_carlo_simulation is called with any     *)
(* series of up to MaxReturns daily returns.                               *)

MaxReturns == 3

ReturnChoices == {Q(-1, 2), Zero, Q(1, 4)}

ReturnSeries == UNION {[1..n -> ReturnChoices] : n \in 1..MaxReturns}

InitProjector ==
    /\ pc = "simulate"
    /\ is_historical = TRUE
    /\ tickers = <<"A">>
    /\ weights = <<One>>
    /\ recs = <<[tickers |-> <<"A">>, weights |-> <<One>>]>>
    /\ outcome = "ok"
    /\ raw_data = NoAnswer
    /\ warned = FALSE
    /\ rec_data = EmptyTable
    /\ normalized_data = EmptyTable
    /\ returns = EmptyTable
    /\ portfolio_returns \in ReturnSeries
    /\ cumulative_returns = CumProd(portfolio_returns)
    /\ summary = <<>>
    /\ shown = {}
    /\ NoProjection
    /\ LoggedIn

NextProjector ==
    \/ Simulate
    \/ \E response \in Responses : Explain(response)

SpecProjector == InitProjector /\ [][NextProjector]_vars

----------------------------------------------------------------------------
(* Properties *)

\* the data source has answered the current analysis
Answered == raw_data # NoAnswer

\* C1: on the fresh path and on the replay path alike, a portfolio whose
\* weights differ in number from its tickers, or whose weights do not sum to
\* 1 within the tolerance, ends in the invalid-portfolio error with nothing
\* analysed or simulated; a portfolio that passes is analysed.
C1_ValidationGuardsEveryAnalysis ==
    (pc = "idle" /\ tickers # <<>>) =>
        IF ValidPortfolio(tickers, weights)
        THEN outcome # "invalid" /\ Answered
        ELSE outcome = "invalid" /\ NoAnalysis /\ NoProjection

AllMissing(t) ==
    \A i \in 1..Len(t.rows) : \A j \in 1..Len(t.rows[i]) : IsNaN(t.rows[i][j])

\* C2: a price table with no rows, or with rows and every price missing,
\* ends the analysis in the no-data outcome, and then no return series, no
\* summary and no projection exist.
C2_EmptyOrAllMissingIsNoData ==
    (Answered /\ AllMissing(raw_data)) =>
        /\ outcome = "nodata"
        /\ returns = EmptyTable
        /\ portfolio_returns = <<>>
        /\ summary = <<>>
        /\ NoProjection

\* column j of t holds an observation
Observed(t, j) == \E i \in 1..Len(t.rows) : ~IsNaN(t.rows[i][j])

\* the number of rows left by the two fills and the drop: a fill has no
\* limit, so a cell stays missing only in a column without any observation
RetainedRows(t) ==
    IF \A j \in 1..Len(t.cols) : Observed(t, j) THEN Len(t.rows) ELSE 0

\* C3: when the table is cleaned and fewer than 2 rows remain, the analysis
\* ends in the error outcome, no summary is reported, and the projector is
\* not called; it is never called on an empty return series.
C3_TooFewRowsIsAnError ==
    /\ (Answered /\ Len(raw_data.rows) > 0 /\ RetainedRows(raw_data) < 2) =>
          /\ pc = "idle"
          /\ outcome = "error"
          /\ summary = <<>>
          /\ "summary" \notin shown
          /\ NoProjection
    /\ pc \in {"simulate", "explain"} => portfolio_returns # <<>>

\* a cleaned table of exactly one row: its return series is empty
C3_Witness ==
    /\ Answered
    /\ Len(raw_data.rows) = 1
    /\ ~HasNaN(raw_data.rows[1])
    /\ returns.rows = <<>>
    /\ "cumulative_chart" \in shown
    /\ outcome = "error"

SetMax(S) == CHOOSE x \in S : \A y \in S : y <= x

SetMin(S) == CHOOSE x \in S : \A y \in S : x <= y

\* cell (i, j) after a forward fill followed by a backward fill: the last
\* observation at or before row i, else the first one after it, else missing
FilledCell(t, i, j) ==
    LET before == {k \in 1..i : ~IsNaN(t.rows[k][j])}
        after == {k \in i..Len(t.rows) : ~IsNaN(t.rows[k][j])}
    IN  IF before # {} THEN t.rows[SetMax(before)][j]
        ELSE IF after # {} THEN t.rows[SetMin(after)][j]
        ELSE NaN

StillMissing(t, i) == \E j \in 1..Len(t.cols) : IsNaN(FilledCell(t, i, j))

Dates(t) == {t.index[k] : k \in 1..Len(t.index)}

\* C4: the rows excluded from the cleaned table are exactly the rows that
\* still hold a missing value after the forward fill and the backward fill;
\* a retained row holds the filled values and none missing; the row count,
\* the normalized prices, the returns and the cumulative returns are those
\* of the retained rows.
C4_FillThenDropRows ==
    (Answered /\ outcome # "nodata") =>
        /\ \A i \in 1..Len(raw_data.rows) :
              (i \in Dates(rec_data)) <=> ~StillMissing(raw_data, i)
        /\ Len(rec_data.rows) =
              Cardinality({i \in 1..Len(raw_data.rows) : ~StillMissing(raw_data, i)})
        /\ \A k \in 1..Len(rec_data.rows) : \A j \in 1..Len(rec_data.cols) :
              /\ rec_data.rows[k][j] = FilledCell(raw_data, rec_data.index[k], j)
              /\ ~IsNaN(rec_data.rows[k][j])
        /\ warned <=> \E i \in 1..Len(raw_data.rows) : StillMissing(raw_data, i)
        /\ rec_data.rows # <<>> =>
              /\ normalized_data.index = rec_data.index
              /\ returns.index = Tail(rec_data.index)
        /\ outcome = "ok" =>
              /\ Len(portfolio_returns) = Len(rec_data.rows) - 1
              /\ Len(cumulative_returns) = Len(rec_data.rows) - 1

\* one ticker has no observation although the other has: every row holds
\* the gap, and every row is excluded
C4_Witness ==
    /\ Answered
    /\ Len(raw_data.cols) = 2
    /\ Len(raw_data.rows) >= 2
    /\ Observed(raw_data, 1)
    /\ ~Observed(raw_data, 2)
    /\ warned
    /\ rec_data.rows = <<>>

\* the column of t labelled tk
ColumnOf(t, tk) == CHOOSE j \in 1..Len(t.cols) : t.cols[j] = tk

\* C5: on each return date the portfolio return is the sum over i of
\* weights[i] times the return of the ticker listed at position i.
C5_WeightFollowsItsTicker ==
    outcome = "ok" =>
        \A t \in 1..Len(portfolio_returns) :
            portfolio_returns[t] =
                SumSeq([i \in 1..Len(tickers) |->
                           Mul(weights[i], returns.rows[t][ColumnOf(returns, tickers[i])])])

\* the product of (1 + s[i]) over i in 1..k
RECURSIVE GrowthUpTo(_, _)
GrowthUpTo(s, k) == IF k = 0 THEN One ELSE Mul(Add(One, s[k]), GrowthUpTo(s, k - 1))

\* C6: the cumulative return series has one entry per return date, its k-th
\* entry is the product of (1 + portfolio return) over the return dates
\* 1..k, and the total return is its last entry minus 1.
C6_CumulativeIsRunningProduct ==
    outcome = "ok" =>
        /\ Len(portfolio_returns) >= 1
        /\ Len(cumulative_returns) = Len(portfolio_returns)
        /\ Len(cumulative_returns) = Len(returns.index)
        /\ \A k \in 1..Len(cumulative_returns) :
              cumulative_returns[k] = GrowthUpTo(portfolio_returns, k)
        /\ cumulative_returns[1] = Add(One, portfolio_returns[1])
        /\ summary[1] = Sub(cumulative_returns[Len(cumulative_returns)], One)

\* two return dates with non-zero returns
C6_Witness ==
    /\ outcome = "ok"
    /\ Len(cumulative_returns) >= 2
    /\ portfolio_returns[1] # Zero
    /\ portfolio_returns[2] # Zero
    /\ summary[1] # Zero

\* C7: with one ticker the answer of the data source, a series included,
\* becomes a one-column table named after the ticker; with weight 1.0 the
\* portfolio return series is that ticker's day-over-day return series,
\* date by date.
C7_SingleAssetReduction ==
    (Answered /\ Len(tickers) = 1) =>
        /\ rec_data.cols = <<tickers[1]>>
        /\ \A i \in 1..Len(rec_data.rows) : Len(rec_data.rows[i]) = 1
        /\ (outcome = "ok" /\ weights = <<One>>) =>
              /\ Len(portfolio_returns) = Len(rec_data.rows) - 1
              /\ returns.index = Tail(rec_data.index)
              /\ \A t \in 1..Len(portfolio_returns) :
                    portfolio_returns[t] =
                        Sub(Div(rec_data.rows[t + 1][1], rec_data.rows[t][1]), One)

\* a series answer whose returns differ from date to date
C7_Witness ==
    /\ Answered
    /\ raw_data.shape = "series"
    /\ weights = <<One>>
    /\ outcome = "ok"
    /\ Len(portfolio_returns) >= 2
    /\ portfolio_returns[1] # portfolio_returns[2]

Constant(s) == \A i \in 1..Len(s) : \A k \in 1..Len(s) : s[i] = s[k]

\* C8: when the portfolio return series is constant the Sharpe ratio shown
\* is exactly 0; when the volatility is not zero it is
\* (annual return - 0.02) / volatility.
C8_SharpeOfConstantReturnsIsZero ==
    outcome = "ok" =>
        /\ Constant(portfolio_returns) => summary[4] = Zero
        /\ NotEqual(summary[3], Zero) =>
              summary[4] = Div(Sub(summary[2], RiskFreeRate), summary[3])

Invested == Q(InitialInvestment, 1)

\* C9: when the mean and the standard deviation of the portfolio returns are
\* both 0, every terminal value is the initial investment, on every path and
\* for every number of days, and so are the three percentiles.
C9_DegenerateProjection ==
    (final_portfolio_values # <<>>
        /\ Mean(portfolio_returns) = Zero /\ Std(portfolio_returns) = Zero) =>
        /\ Len(simulated_returns) = SimDays
        /\ Len(final_portfolio_values) = NSims
        /\ \A p \in 1..NSims : final_portfolio_values[p] = Invested
        /\ percentiles = <<Invested, Invested, Invested>>

\* a projection from at least two flat return dates
C9_Witness ==
    /\ final_portfolio_values # <<>>
    /\ Len(portfolio_returns) >= 2
    /\ Mean(portfolio_returns) = Zero
    /\ Std(portfolio_returns) = Zero
    /\ pc = "explain"

\* C10: the 5th percentile is at most the 50th, which is at most the 95th;
\* when every draw is above -1 no terminal value and no percentile is
\* negative.
C10_PercentilesOrdered ==
    percentiles # <<>> =>
        /\ Leq(percentiles[1], percentiles[2])
        /\ Leq(percentiles[2], percentiles[3])
        /\ (InitialInvestment > 0
              /\ \A d \in 1..SimDays : \A p \in 1..NSims :
                    Less(Q(-1, 1), simulated_returns[d][p])) =>
              /\ \A p \in 1..NSims : Leq(Zero, final_portfolio_values[p])
              /\ \A k \in 1..3 : Leq(Zero, percentiles[k])

\* the projector has been started in the current request
ProjectorStarted == simulated_returns # <<>>

\* what the analyzer computes
AnalyzerResults ==
    <<outcome, raw_data, warned, rec_data, normalized_data, returns,
      portfolio_returns, cumulative_returns, summary>>

\* in every state: a started projector follows a successful analyzer and its
\* draws come from the mean and deviation of the portfolio return series; an
\* analysis that ended otherwise has no projection
PipelineState ==
    /\ ProjectorStarted =>
          /\ outcome = "ok"
          /\ portfolio_returns # <<>>
          /\ Len(summary) = 4
          /\ {"price_chart", "cumulative_chart", "summary"} \subseteq shown
          /\ simulated_returns \in
                 NormalDraws(Mean(portfolio_returns), Std(portfolio_returns))
          /\ final_portfolio_values = FinalValues(simulated_returns)
    /\ pc \in {"simulate", "explain"} => outcome = "ok"
    /\ outcome # "ok" => ~ProjectorStarted /\ NoProjection

\* in every step: the projector is entered from the analyzer only, once, and
\* while it runs the request and the analyzer's results stay as they are
PipelineStep ==
    /\ pc' = "simulate" => pc = "fetch" /\ outcome' = "ok" /\ ~ProjectorStarted'
    /\ pc = "simulate" => pc' = "explain" /\ ~ProjectorStarted /\ ProjectorStarted'
    /\ pc = "explain" => pc' = "idle" /\ simulated_returns' = simulated_returns
    /\ pc \in {"simulate", "explain"} =>
          /\ AnalyzerResults' = AnalyzerResults
          /\ request' = request
    /\ (ProjectorStarted /\ simulated_returns' # simulated_returns) =>
          pc = "idle" /\ ~ProjectorStarted'

\* C11: within one request the projector runs at most once, only after the
\* analyzer has fetched, cleaned and computed the returns and the summary;
\* its draws depend on the portfolio return series only; after a no-data or
\* error outcome it is never started; and no step of the projector changes
\* a result of the analyzer.
C11_PipelineOrdering == []PipelineState /\ [][PipelineStep]_vars

\* a request whose analysis and projection have both finished
C11_Witness ==
    /\ pc = "idle"
    /\ outcome = "ok"
    /\ ProjectorStarted
    /\ narrative # ""

\* the projector has returned or has been left by an exception
ProjectorLeft == pc = "idle" /\ ProjectorStarted

\* C12: when the explanation service gives no text for the simulation
\* summary, the terminal values and the three percentiles stay reported, the
\* placeholder is shown in place of the narrative, and no error leaves the
\* projector.
C12_ExplanationDegrades ==
    (ProjectorLeft /\ narrative # "explanation") =>
        /\ narrative = "placeholder"
        /\ "placeholder" \in shown
        /\ "processing_error" \notin shown
        /\ percentiles = Percentiles(final_portfolio_values)
        /\ {"box_plot", "percentiles"} \subseteq shown
        /\ outcome = "ok"

\* the worksheet, when it can be read, holds a row for email and the first
\* such row holds the digest of password
Matches(email, password, read_ok) ==
    /\ email # "" /\ password # "" /\ read_ok
    /\ \E i \in 1..Len(users.rows) :
          /\ users.rows[i].email = email
          /\ users.rows[i].hashed_password = hash_password(password)
          /\ \A k \in 1..(i - 1) : users.rows[k].email # email

\* in every state: the main page is rendered, and an analysis runs, only with
\* a user in the session
SessionState ==
    /\ page \in {"login", "main"}
    /\ Route = "page_main" => user # None /\ user.logged_in /\ user.email # ""
    /\ (pc # "idle" \/ outcome # "none") => Route = "page_main" /\ user # None

\* in every step: a login that fails and a registration leave user and page
\* as they are, a logout resets both, and nothing but a login that succeeds
\* or a logout changes either
SessionStep ==
    /\ \A email \in LoginEmails, password \in LoginPasswords, read_ok \in BOOLEAN :
          Login(email, password, read_ok) =>
              IF Matches(email, password, read_ok)
              THEN user'.logged_in /\ user'.email = email /\ page' = "main"
              ELSE user' = user /\ page' = page
    /\ \A email \in SignupEmails, password \in SignupPasswords,
          display_name \in SignupNames, read_ok \in BOOLEAN, write_ok \in BOOLEAN :
          Signup(email, password, display_name, read_ok, write_ok) =>
              user' = user /\ page' = page
    /\ Logout => user' = None /\ page' = "login"
    /\ (user' # user \/ page' # page) =>
          \/ user = None /\ page = "login" /\ user' # None /\ page' = "main"
          \/ user # None /\ page = "main" /\ user' = None /\ page' = "login"

\* C13: after any sequence of reruns, logins, registrations and logouts the
\* main page is rendered only when the session holds a user; a login that
\* fails and a registration change neither user nor page; a logout sets user
\* to None and page to login.
C13_SessionInvariant == []SessionState /\ [][SessionStep]_vars

\* the main page with the analysis of a user who registered and logged in
C13_Witness ==
    /\ Route = "page_main"
    /\ user = User("a", "n")
    /\ pc = "idle"
    /\ outcome = "ok"

====
